---- MODULE Spec2Model ----
(***************************************************************************)
(* Model of ChatDataProvider (src/core/chat_data.rs): the single-loader    *)
(* cache of chat items.  Callers are tasks of the multi-threaded tokio     *)
(* runtime (#[tokio::main]); every statement between two awaits is one     *)
(* step, so the steps of different callers interleave freely.              *)
(*                                                                         *)
(* Time is counted in units of BASE_DELAY_MS (100 ms).  A call keeps the   *)
(* time left to its deadline (deadline - Instant::now()) in remaining[p].  *)
(* Code between suspension points takes no time; time advances (Tick)      *)
(* only while every caller in a call is suspended on the fetch or on the   *)
(* notification, and a timer that is due fires before time advances.       *)
(*                                                                         *)
(* The second part models YggdrasilMessenger (src/core/messenger.rs) and   *)
(* its SlidingWindowBuffer (src/core/buffer.rs): the owner of a messenger  *)
(* calls connect, send, receive and disconnect one after the other, and    *)
(* the tasks that a connect spawns run concurrently with the owner.  A     *)
(* String is the sequence of its bytes.                                    *)
(***************************************************************************)
EXTENDS Integers, FiniteSets, Sequences, TLC

\* ---- bounds of the model
NumCallers == 2
MaxCalls == 2
MaxTimeout == 1
\* limits of the SlidingWindowBuffer of the model (MAX_MESSAGES and
\* MAX_TOTAL_BYTES of the source, scaled down), in messages and in bytes
MaxMessages == 2
MaxBytes == 3
\* successful connects, operations called on the messenger, lines the peers send
MaxConnects == 2
MaxOps == 3
MaxLines == 2

Procs == 1..NumCallers
Timeouts == 0..MaxTimeout

\* ---- values
\* Option::None of the cache; a Snapshot is identified by the number of the
\* fetch invocation that produced it (two fetches never share an Arc).
None == 0
\* the unlocked tokio Mutex
Free == 0
\* error kinds the fetch can return (DataError without Timeout)
SourceErrors == {"Network", "Unauthorized"}

NoResult == [tag |-> "none", val |-> 0]
Ok(d) == [tag |-> "Ok", val |-> d]
Err(e) == [tag |-> e, val |-> 0]

VARIABLES
  chats,        \* ChatDataProvider.chats: None or the id of the Snapshot
  is_loading,   \* ChatDataProvider.is_loading
  lock,         \* holder of the Mutex around chats, or Free
  notified,     \* notified[p]: p's Notified future has received a notify_waiters()
  pc,           \* position of each caller
  kind,         \* the operation each caller is in: "none", "load", "refresh", "backoff"
  remaining,    \* time left to the deadline of the call
  result,       \* value of the fetch while loading, return value once pc = "idle"
  fetchCount,   \* number of invocations of do_load_chats so far
  calls,        \* number of load()/refresh() calls started so far
  loaded,       \* history: some loader has entered its Ok(Ok(data)) branch
  clearedSince, \* history: refresh() cleared the cache after the last commit
  clearedAt,    \* history: clearedAt[p]: fetches invoked before p's refresh() cleared the cache,
                \* recorded in the runs of SpecStale
  script,       \* behaviour of the fetch (do_load_chats) in this run
  obs,          \* last observation made with a read-only operation
  attempt,      \* load_with_backoff_and_timeout: the loop variable
  sleepLeft,    \* load_with_backoff_and_timeout: time left of sleep(delay)
  slept         \* history: total time spent in backoff sleeps

\* ---- state of the YggdrasilMessenger (src/core/messenger.rs) and of its
\* MessageBuffer (src/core/buffer.rs)
VARIABLES
  messages,          \* SlidingWindowBuffer.messages, oldest first
  total_bytes,       \* SlidingWindowBuffer.total_bytes
  last,              \* history: the last operation on the buffer, its input and result
  connection_handle, \* YggdrasilMessenger.connection_handle: None or the task
  message_tx,        \* YggdrasilMessenger.message_tx: None or the channel of the connection
  mpc,               \* position of the owner of the messenger (&mut self)
  mop,               \* the owner's current or last operation and its result
  sinceConnect,      \* history: a connect() has succeeded and no disconnect() has returned since
  joining,           \* disconnect: the handle taken out of connection_handle
  nconn,             \* number of connections established so far
  ops,               \* number of operations called on the messenger so far
  lines,             \* number of lines read from the peers so far
  task,              \* task[c]: the task spawned at line 42 for connection c
  recv_task,         \* recv_task[c]: the task spawned at line 47
  send_task,         \* send_task[c]: the task spawned at line 75
  cur_in,            \* recv_task: msg, the line read and cleaned
  cur_out,           \* send_task: msg, the message taken from the channel
  chan,              \* chan[c]: content of the unbounded channel of connection c
  written,           \* written[c]: bytes written to the stream of connection c
  accepted,          \* history: accepted[c]: the messages send() has put into channel c
  wire_in,           \* history: wire_in[c]: the lines read from the stream of connection c
  received,          \* history: the messages receive_messages has returned so far
  evicted,           \* history: some push has evicted a message
  buf_lock,          \* holder of the Mutex around the SlidingWindowBuffer, or Free
  wpc,               \* wpc[w]: position of task w in push_message / take_messages
  wloc,              \* wloc[w]: the locals of task w: msg, count, result
  wops,              \* number of push_message / take_messages calls started so far
  npush,             \* history: number of push_back made so far; the n-th message pushed has id n
  held_ids,          \* history: the ids of the messages in the buffer, oldest first
  drained_ids        \* history: the ids of the messages take_messages has returned, in order

cacheAll == <<chats, is_loading, lock, notified, pc, kind, remaining, result,
              fetchCount, calls, loaded, clearedSince, clearedAt, script, obs,
              attempt, sleepLeft, slept>>

bufVars == <<messages, total_bytes, last>>
ownerVars == <<connection_handle, message_tx, mpc, mop, sinceConnect, joining, nconn, ops>>
taskVars == <<lines, task, recv_task, send_task, cur_in, cur_out, chan, written>>
netHist == <<accepted, wire_in, received, evicted>>
sharedVars == <<buf_lock, wpc, wloc, wops, npush, held_ids, drained_ids>>
msgVars == <<bufVars, ownerVars, taskVars, netHist, sharedVars>>

vars == <<cacheAll, msgVars>>

cacheVars == <<chats, is_loading, lock, notified>>
histVars == <<loaded, clearedSince, clearedAt>>
retryVars == <<attempt, sleepLeft, slept>>

\* ---- the fetch (do_load_chats): what the n-th invocation may return
AnyScript == [mode |-> "any", k |-> 0]
FetchOutcomes(n) ==
  CASE script.mode = "any" -> {"Ok"} \cup SourceErrors
    [] script.mode = "failFirst" -> IF n <= script.k THEN {"Network"} ELSE {"Ok"}
    [] script.mode = "denied" -> {"Unauthorized"}
    [] OTHER -> {"Network"}

\* ---- line 151, 190, 224: the awaits wrapped in timeout_at(deadline, ..)
TimerArmedLoaderOnly(p) == pc[p] \in {"fetching", "b_fetching"}

TimerArmed(p) == pc[p] \in {"fetching", "waiting", "b_fetching"}

\* ---- return from load_chats
Return(p, r) ==
  /\ pc' = [pc EXCEPT ![p] = "idle"]
  /\ result' = [result EXCEPT ![p] = r]
  /\ kind' = [kind EXCEPT ![p] = "none"]
  /\ remaining' = [remaining EXCEPT ![p] = 0]
  /\ clearedAt' = [clearedAt EXCEPT ![p] = 0]

Goto(p, l) ==
  /\ pc' = [pc EXCEPT ![p] = l]
  /\ UNCHANGED <<kind, remaining, clearedAt>>

\* the tasks that call are interchangeable: a new call is made by the idle
\* task of least id
NextCaller(p) == pc[p] = "idle" /\ \A q \in Procs : q < p => pc[q] # "idle"

\* ---- YggdrasilMessenger::new, MessageBuffer::new
Conns == 1..MaxConnects
\* the tasks that share the buffer
Workers == 1..NumCallers
NoLocals == [msg |-> <<>>, count |-> 0, result |-> <<>>, ids |-> <<>>]

NoOp == [op |-> "none", pre |-> "Disconnected", res |-> "Ok", msgs |-> <<>>]
NoBufferOp == [op |-> "none", msg |-> <<>>, count |-> 0, before |-> <<>>,
               bytes_before |-> 0, ret |-> <<>>]

MessengerNew ==
  /\ messages = <<>>
  /\ total_bytes = 0
  /\ last = NoBufferOp
  /\ connection_handle = None
  /\ message_tx = None
  /\ mpc = "idle"
  /\ mop = NoOp
  /\ sinceConnect = FALSE
  /\ joining = None
  /\ nconn = 0
  /\ ops = 0
  /\ lines = 0
  /\ task = [c \in Conns |-> "none"]
  /\ recv_task = [c \in Conns |-> "none"]
  /\ send_task = [c \in Conns |-> "none"]
  /\ cur_in = [c \in Conns |-> <<>>]
  /\ cur_out = [c \in Conns |-> <<>>]
  /\ chan = [c \in Conns |-> <<>>]
  /\ written = [c \in Conns |-> <<>>]
  /\ accepted = [c \in Conns |-> <<>>]
  /\ wire_in = [c \in Conns |-> <<>>]
  /\ received = <<>>
  /\ evicted = FALSE
  /\ buf_lock = Free
  /\ wpc = [w \in Workers |-> "idle"]
  /\ wloc = [w \in Workers |-> NoLocals]
  /\ wops = 0
  /\ npush = 0
  /\ held_ids = <<>>
  /\ drained_ids = <<>>

\* ---- ChatDataProvider::new
Init ==
  /\ chats = None
  /\ is_loading = FALSE
  /\ lock = Free
  /\ notified = [p \in Procs |-> FALSE]
  /\ pc = [p \in Procs |-> "idle"]
  /\ kind = [p \in Procs |-> "none"]
  /\ remaining = [p \in Procs |-> 0]
  /\ result = [p \in Procs |-> NoResult]
  /\ fetchCount = 0
  /\ calls = 0
  /\ loaded = FALSE
  /\ clearedSince = FALSE
  /\ clearedAt = [p \in Procs |-> 0]
  /\ script = AnyScript
  /\ obs = [op |-> "none", val |-> 0]
  /\ attempt = [p \in Procs |-> 0]
  /\ sleepLeft = [p \in Procs |-> 0]
  /\ slept = 0
  /\ MessengerNew

\* ---- load_chats, line 133-137: deadline = now + timeout_duration
LoadStart(p, t) ==
  /\ NextCaller(p)
  /\ calls < MaxCalls
  /\ calls' = calls + 1
  /\ pc' = [pc EXCEPT ![p] = "check_acq"]
  /\ kind' = [kind EXCEPT ![p] = "load"]
  /\ remaining' = [remaining EXCEPT ![p] = t]
  /\ result' = [result EXCEPT ![p] = NoResult]
  /\ UNCHANGED <<msgVars, cacheVars, fetchCount, histVars, script, obs, retryVars>>

\* ---- refresh, line 280-282: wait for the cache lock
RefreshStart(p, t) ==
  /\ NextCaller(p)
  /\ calls < MaxCalls
  /\ calls' = calls + 1
  /\ pc' = [pc EXCEPT ![p] = "refresh_acq"]
  /\ kind' = [kind EXCEPT ![p] = "refresh"]
  /\ remaining' = [remaining EXCEPT ![p] = t]
  /\ result' = [result EXCEPT ![p] = NoResult]
  /\ UNCHANGED <<msgVars, cacheVars, fetchCount, histVars, script, obs, retryVars>>

RefreshLock(p) ==
  /\ pc[p] = "refresh_acq"
  /\ lock = Free
  /\ lock' = p
  /\ Goto(p, "refresh_clear")
  /\ UNCHANGED <<msgVars, chats, is_loading, notified, result, fetchCount, calls, histVars, script, obs, retryVars>>

\* line 282-283: *guard = None, unlock, enter load_chats
RefreshClear(p) ==
  /\ pc[p] = "refresh_clear"
  /\ chats' = None
  /\ lock' = Free
  /\ clearedSince' = TRUE
  /\ Goto(p, "check_acq")
  /\ UNCHANGED <<msgVars, is_loading, notified, result, fetchCount, calls, loaded, script, obs, retryVars>>

\* the same step with its place in the sequence of fetches recorded
RefreshClearAt(p) ==
  /\ pc[p] = "refresh_clear"
  /\ chats' = None
  /\ lock' = Free
  /\ clearedSince' = TRUE
  /\ clearedAt' = [clearedAt EXCEPT ![p] = fetchCount]
  /\ pc' = [pc EXCEPT ![p] = "check_acq"]
  /\ UNCHANGED <<kind, remaining>>
  /\ UNCHANGED <<msgVars, is_loading, notified, result, fetchCount, calls, loaded, script, obs, retryVars>>

\* ---- line 140: self.chats.lock().await
CheckLock(p) ==
  /\ pc[p] = "check_acq"
  /\ lock = Free
  /\ lock' = p
  /\ Goto(p, "check")
  /\ UNCHANGED <<msgVars, chats, is_loading, notified, result, fetchCount, calls, histVars, script, obs, retryVars>>

\* line 140-142: return the cached data, or go on to the loader claim
CacheCheckSkipsCache(p) ==
  /\ pc[p] = "check"
  /\ lock' = Free
  /\ Goto(p, "claim")
  /\ UNCHANGED <<msgVars, chats, is_loading, notified, result, fetchCount, calls, histVars, script, obs, retryVars>>

CacheCheck(p) ==
  /\ pc[p] = "check"
  /\ lock' = Free
  /\ IF chats # None
       THEN Return(p, Ok(chats))
       ELSE Goto(p, "claim") /\ UNCHANGED result
  /\ UNCHANGED <<msgVars, chats, is_loading, notified, fetchCount, calls, loaded, clearedSince, script, obs, retryVars>>

\* line 145-151: compare_exchange(false, true); the winner invokes the fetch
ClaimWithoutCompare(p) ==
  /\ pc[p] = "claim"
  /\ is_loading' = TRUE
  /\ fetchCount' = fetchCount + 1
  /\ Goto(p, "fetching")
  /\ UNCHANGED <<msgVars, chats, lock, notified, result, calls, histVars, script, obs, retryVars>>

Claim(p) ==
  /\ pc[p] = "claim"
  /\ IF is_loading = FALSE
       THEN /\ is_loading' = TRUE
            /\ fetchCount' = fetchCount + 1
            /\ Goto(p, "fetching")
       ELSE /\ UNCHANGED <<is_loading, fetchCount>>
            /\ Goto(p, "wait_check")
  /\ UNCHANGED <<msgVars, chats, lock, notified, result, calls, histVars, script, obs, retryVars>>

\* line 151-152: timeout_at(deadline, do_load_chats()) yields Ok(Ok(data))
FetchOkClearsFirst(p) ==
  /\ pc[p] = "fetching"
  /\ "Ok" \in FetchOutcomes(fetchCount)
  /\ result' = [result EXCEPT ![p] = Ok(fetchCount)]
  /\ loaded' = TRUE
  /\ is_loading' = FALSE
  /\ Goto(p, "commit_acq")
  /\ UNCHANGED <<msgVars, chats, lock, notified, fetchCount, calls, clearedSince, clearedAt, script, obs, retryVars>>

FetchOk(p) ==
  /\ pc[p] = "fetching"
  /\ "Ok" \in FetchOutcomes(fetchCount)
  /\ result' = [result EXCEPT ![p] = Ok(fetchCount)]
  /\ loaded' = TRUE
  /\ Goto(p, "commit_acq")
  /\ UNCHANGED <<msgVars, cacheVars, fetchCount, calls, clearedSince, clearedAt, script, obs, retryVars>>

\* line 164: Ok(Err(e))
FetchErrClearsCache(p, e) ==
  /\ pc[p] = "fetching"
  /\ e \in FetchOutcomes(fetchCount)
  /\ e \in SourceErrors
  /\ result' = [result EXCEPT ![p] = Err(e)]
  /\ chats' = None
  /\ Goto(p, "clear")
  /\ UNCHANGED <<msgVars, is_loading, lock, notified, fetchCount, calls, histVars, script, obs, retryVars>>

FetchErr(p, e) ==
  /\ pc[p] = "fetching"
  /\ e \in FetchOutcomes(fetchCount)
  /\ e \in SourceErrors
  /\ result' = [result EXCEPT ![p] = Err(e)]
  /\ Goto(p, "clear")
  /\ UNCHANGED <<msgVars, cacheVars, fetchCount, calls, histVars, script, obs, retryVars>>

\* line 170: Err(Elapsed), the deadline passed before the fetch completed
FetchTimeoutKeepsFlag(p) ==
  /\ pc[p] = "fetching"
  /\ TimerArmed(p)
  /\ remaining[p] <= 0
  /\ Return(p, Err("Timeout"))
  /\ UNCHANGED <<msgVars, cacheVars, fetchCount, calls, loaded, clearedSince, script, obs, retryVars>>

FetchTimeout(p) ==
  /\ pc[p] = "fetching"
  /\ TimerArmed(p)
  /\ remaining[p] <= 0
  /\ result' = [result EXCEPT ![p] = Err("Timeout")]
  /\ Goto(p, "clear")
  /\ UNCHANGED <<msgVars, cacheVars, fetchCount, calls, histVars, script, obs, retryVars>>

\* line 155: self.chats.lock().await
CommitLock(p) ==
  /\ pc[p] = "commit_acq"
  /\ lock = Free
  /\ lock' = p
  /\ Goto(p, "commit")
  /\ UNCHANGED <<msgVars, chats, is_loading, notified, result, fetchCount, calls, histVars, script, obs, retryVars>>

\* line 156-157: *guard = Some(data.clone()), unlock
Commit(p) ==
  /\ pc[p] = "commit"
  /\ chats' = result[p].val
  /\ lock' = Free
  /\ clearedSince' = FALSE
  /\ Goto(p, "clear")
  /\ UNCHANGED <<msgVars, is_loading, notified, result, fetchCount, calls, loaded, clearedAt, script, obs, retryVars>>

\* line 160, 166, 172: self.is_loading.store(false)
ClearFlag(p) ==
  /\ pc[p] = "clear"
  /\ is_loading' = FALSE
  /\ Goto(p, "notify")
  /\ UNCHANGED <<msgVars, chats, lock, notified, result, fetchCount, calls, histVars, script, obs, retryVars>>

\* line 161-162, 167-168, 173-174: notify_waiters() wakes the Notified futures
\* that exist now, and the loader returns its result
NotifyWaiters(p) ==
  /\ pc[p] = "notify"
  /\ notified' = [q \in Procs |-> IF pc[q] = "waiting" THEN TRUE ELSE notified[q]]
  /\ Return(p, result[p])
  /\ UNCHANGED <<msgVars, chats, is_loading, lock, fetchCount, calls, loaded, clearedSince, script, obs, retryVars>>

\* line 184-190: deadline check, then the Notified future is created
WaitCheck(p) ==
  /\ pc[p] = "wait_check"
  /\ IF remaining[p] <= 0
       THEN Return(p, Err("Timeout")) /\ UNCHANGED notified
       ELSE /\ Goto(p, "waiting")
            /\ notified' = [notified EXCEPT ![p] = FALSE]
            /\ UNCHANGED result
  /\ UNCHANGED <<msgVars, chats, is_loading, lock, fetchCount, calls, loaded, clearedSince, script, obs, retryVars>>

\* line 190: timeout_at(deadline, notified()) completes with the notification
WaitWake(p) ==
  /\ pc[p] = "waiting"
  /\ notified[p]
  /\ notified' = [notified EXCEPT ![p] = FALSE]
  /\ Goto(p, "wait_acq")
  /\ UNCHANGED <<msgVars, chats, is_loading, lock, result, fetchCount, calls, histVars, script, obs, retryVars>>

\* line 190-191: the deadline passes first
WaitTimeout(p) ==
  /\ pc[p] = "waiting"
  /\ TimerArmed(p)
  /\ ~notified[p]
  /\ remaining[p] <= 0
  /\ Return(p, Err("Timeout"))
  /\ UNCHANGED <<msgVars, cacheVars, fetchCount, calls, loaded, clearedSince, script, obs, retryVars>>

\* line 195: self.chats.lock().await
WaitLock(p) ==
  /\ pc[p] = "wait_acq"
  /\ lock = Free
  /\ lock' = p
  /\ Goto(p, "wait_read")
  /\ UNCHANGED <<msgVars, chats, is_loading, notified, result, fetchCount, calls, histVars, script, obs, retryVars>>

\* line 195-198: return the data if it is there, else loop
WaitRead(p) ==
  /\ pc[p] = "wait_read"
  /\ lock' = Free
  /\ IF chats # None
       THEN Return(p, Ok(chats))
       ELSE Goto(p, "wait_check") /\ UNCHANGED result
  /\ UNCHANGED <<msgVars, chats, is_loading, notified, fetchCount, calls, loaded, clearedSince, script, obs, retryVars>>

\* ---- load_with_backoff_and_timeout, line 211-256 (no caller in the source;
\* modelled as an operation of its own, called with a time to the deadline)
MAX_RETRIES == 3
BASE_DELAY_MS == 100
MAX_DELAY_MS == 2000

\* time is counted in units of the base delay
Units(ms) == ms \div BASE_DELAY_MS

Min(a, b) == IF a <= b THEN a ELSE b

\* line 230-233: min(BASE_DELAY_MS * (1 << attempt), MAX_DELAY)
BackoffDelay(a) == Units(Min(BASE_DELAY_MS * (2 ^ a), MAX_DELAY_MS))

BackoffStart(p, t) ==
  /\ NextCaller(p)
  /\ calls < MaxCalls
  /\ calls' = calls + 1
  /\ pc' = [pc EXCEPT ![p] = "b_check"]
  /\ kind' = [kind EXCEPT ![p] = "backoff"]
  /\ remaining' = [remaining EXCEPT ![p] = t]
  /\ result' = [result EXCEPT ![p] = NoResult]
  /\ attempt' = [attempt EXCEPT ![p] = 0]
  /\ UNCHANGED <<msgVars, cacheVars, fetchCount, histVars, script, obs, sleepLeft, slept>>

\* line 219-224: no time left: Timeout; else invoke the fetch
BackoffCheck(p) ==
  /\ pc[p] = "b_check"
  /\ IF remaining[p] <= 0
       THEN Return(p, Err("Timeout")) /\ UNCHANGED fetchCount
       ELSE /\ fetchCount' = fetchCount + 1
            /\ Goto(p, "b_fetching")
            /\ UNCHANGED result
  /\ UNCHANGED <<msgVars, cacheVars, calls, loaded, clearedSince, script, obs, retryVars>>

\* line 225-228
BackoffFetchOk(p) ==
  /\ pc[p] = "b_fetching"
  /\ "Ok" \in FetchOutcomes(fetchCount)
  /\ Return(p, Ok(fetchCount))
  /\ UNCHANGED <<msgVars, cacheVars, fetchCount, calls, loaded, clearedSince, script, obs, retryVars>>

\* line 229-247: a failed attempt: sleep and retry, give up for lack of time,
\* or return the error of the last attempt
BackoffFetchErrSleepsAnyway(p, e) ==
  /\ pc[p] = "b_fetching"
  /\ e \in FetchOutcomes(fetchCount)
  /\ e \in SourceErrors
  /\ IF attempt[p] < MAX_RETRIES - 1
       THEN /\ sleepLeft' = [sleepLeft EXCEPT ![p] = BackoffDelay(attempt[p])]
            /\ Goto(p, "b_sleep")
            /\ UNCHANGED result
       ELSE Return(p, Err(e)) /\ UNCHANGED sleepLeft
  /\ UNCHANGED <<msgVars, cacheVars, fetchCount, calls, loaded, clearedSince, script, obs, attempt, slept>>

BackoffFetchErr(p, e) ==
  /\ pc[p] = "b_fetching"
  /\ e \in FetchOutcomes(fetchCount)
  /\ e \in SourceErrors
  /\ IF attempt[p] < MAX_RETRIES - 1
       THEN IF BackoffDelay(attempt[p]) >= remaining[p]
              THEN Return(p, Err("Timeout")) /\ UNCHANGED sleepLeft
              ELSE /\ sleepLeft' = [sleepLeft EXCEPT ![p] = BackoffDelay(attempt[p])]
                   /\ Goto(p, "b_sleep")
                   /\ UNCHANGED result
       ELSE Return(p, Err(e)) /\ UNCHANGED sleepLeft
  /\ UNCHANGED <<msgVars, cacheVars, fetchCount, calls, loaded, clearedSince, script, obs, attempt, slept>>

\* line 248-251
BackoffFetchTimeout(p) ==
  /\ pc[p] = "b_fetching"
  /\ TimerArmed(p)
  /\ remaining[p] <= 0
  /\ Return(p, Err("Timeout"))
  /\ UNCHANGED <<msgVars, cacheVars, fetchCount, calls, loaded, clearedSince, script, obs, retryVars>>

\* line 242, 218: sleep(delay) is over, next iteration of the loop
BackoffWake(p) ==
  /\ pc[p] = "b_sleep"
  /\ sleepLeft[p] = 0
  /\ attempt' = [attempt EXCEPT ![p] = attempt[p] + 1]
  /\ Goto(p, "b_check")
  /\ UNCHANGED <<msgVars, cacheVars, result, fetchCount, calls, histVars, script, obs, sleepLeft, slept>>

\* ---- the read-only operations
\* line 263-265: get_chats, lock().await then clone
GetChats ==
  /\ lock = Free
  /\ obs' = [op |-> "get_chats", val |-> chats]
  /\ UNCHANGED <<msgVars, cacheVars, pc, kind, remaining, result, fetchCount, calls, histVars, script, retryVars>>

\* line 271-273: is_loading
IsLoading ==
  /\ obs' = [op |-> "is_loading", val |-> IF is_loading THEN 1 ELSE 0]
  /\ UNCHANGED <<msgVars, cacheVars, pc, kind, remaining, result, fetchCount, calls, histVars, script, retryVars>>

\* line 291-293: has_cached_data, try_lock().map(is_some).unwrap_or(false)
HasCachedDataWaits ==
  /\ obs' = [op |-> "has_cached_data", val |-> IF chats # None THEN 1 ELSE 0]
  /\ UNCHANGED <<msgVars, cacheVars, pc, kind, remaining, result, fetchCount, calls, histVars, script, retryVars>>

HasCachedData ==
  /\ obs' = [op |-> "has_cached_data", val |-> IF lock = Free /\ chats # None THEN 1 ELSE 0]
  /\ UNCHANGED <<msgVars, cacheVars, pc, kind, remaining, result, fetchCount, calls, histVars, script, retryVars>>

\* ---- time: the suspension points are the fetch, the wait for the
\* notification and the backoff sleep; a timer that is armed and due fires
\* before time advances, an await without a timer lets the deadline pass
\* (remaining < 0)
Suspended(p) == pc[p] \in {"fetching", "waiting", "b_fetching", "b_sleep"}

Tick ==
  /\ \E p \in Procs : Suspended(p)
  /\ \A p \in Procs :
       \/ pc[p] = "idle"
       \/ /\ Suspended(p)
          /\ TimerArmed(p) => remaining[p] > 0
          /\ pc[p] = "b_sleep" => sleepLeft[p] > 0
  /\ remaining' = [p \in Procs |-> IF Suspended(p) /\ remaining[p] >= 0
                                      THEN remaining[p] - 1 ELSE remaining[p]]
  /\ sleepLeft' = [p \in Procs |-> IF pc[p] = "b_sleep" THEN sleepLeft[p] - 1 ELSE sleepLeft[p]]
  /\ slept' = IF \E p \in Procs : pc[p] = "b_sleep" THEN slept + 1 ELSE slept
  /\ UNCHANGED <<msgVars, cacheVars, pc, kind, result, fetchCount, calls, histVars, script, obs, attempt>>

\* ---- any mix of load() and refresh() calls
Next ==
  \/ \E p \in Procs, t \in Timeouts : LoadStart(p, t)
  \/ \E p \in Procs, t \in Timeouts : RefreshStart(p, t)
  \/ \E p \in Procs : RefreshLock(p)
  \/ \E p \in Procs : RefreshClear(p)
  \/ \E p \in Procs : CheckLock(p)
  \/ \E p \in Procs : CacheCheck(p)
  \/ \E p \in Procs : Claim(p)
  \/ \E p \in Procs : FetchOk(p)
  \/ \E p \in Procs, e \in SourceErrors : FetchErr(p, e)
  \/ \E p \in Procs : FetchTimeout(p)
  \/ \E p \in Procs : CommitLock(p)
  \/ \E p \in Procs : Commit(p)
  \/ \E p \in Procs : ClearFlag(p)
  \/ \E p \in Procs : NotifyWaiters(p)
  \/ \E p \in Procs : WaitCheck(p)
  \/ \E p \in Procs : WaitWake(p)
  \/ \E p \in Procs : WaitTimeout(p)
  \/ \E p \in Procs : WaitLock(p)
  \/ \E p \in Procs : WaitRead(p)
  \/ Tick

Spec == Init /\ [][Next]_vars

\* the steps of a call once it has started, without the completion of the
\* fetch, which is up to the storage layer
CallStep(p) ==
  \/ RefreshLock(p) \/ RefreshClear(p) \/ CheckLock(p) \/ CacheCheck(p)
  \/ Claim(p) \/ FetchTimeout(p) \/ CommitLock(p) \/ Commit(p)
  \/ ClearFlag(p) \/ NotifyWaiters(p) \/ WaitCheck(p) \/ WaitWake(p)
  \/ WaitTimeout(p) \/ WaitLock(p) \/ WaitRead(p)

\* the runtime polls every task that is ready, timers fire, time goes on
FairSpec == Spec /\ WF_vars(Tick) /\ \A p \in Procs : WF_vars(CallStep(p))

\* ---- one round: every caller has called load() with the same deadline on
\* the empty cache, and none has read the cache yet
RoundTimeout == MaxTimeout

InitRound ==
  /\ chats = None
  /\ is_loading = FALSE
  /\ lock = Free
  /\ notified = [p \in Procs |-> FALSE]
  /\ pc = [p \in Procs |-> "check_acq"]
  /\ kind = [p \in Procs |-> "load"]
  /\ remaining = [p \in Procs |-> RoundTimeout]
  /\ result = [p \in Procs |-> NoResult]
  /\ fetchCount = 0
  /\ calls = NumCallers
  /\ loaded = FALSE
  /\ clearedSince = FALSE
  /\ clearedAt = [p \in Procs |-> 0]
  /\ script = AnyScript
  /\ obs = [op |-> "none", val |-> 0]
  /\ attempt = [p \in Procs |-> 0]
  /\ sleepLeft = [p \in Procs |-> 0]
  /\ slept = 0
  /\ MessengerNew

NextRound ==
  \/ \E p \in Procs : CheckLock(p)
  \/ \E p \in Procs : CacheCheck(p)
  \/ \E p \in Procs : Claim(p)
  \/ \E p \in Procs : FetchOk(p)
  \/ \E p \in Procs, e \in SourceErrors : FetchErr(p, e)
  \/ \E p \in Procs : FetchTimeout(p)
  \/ \E p \in Procs : CommitLock(p)
  \/ \E p \in Procs : Commit(p)
  \/ \E p \in Procs : ClearFlag(p)
  \/ \E p \in Procs : NotifyWaiters(p)
  \/ \E p \in Procs : WaitCheck(p)
  \/ \E p \in Procs : WaitWake(p)
  \/ \E p \in Procs : WaitTimeout(p)
  \/ \E p \in Procs : WaitLock(p)
  \/ \E p \in Procs : WaitRead(p)
  \/ Tick

SpecRound == InitRound /\ [][NextRound]_vars

\* ---- calls observed with the read-only operations
NextObs ==
  \/ Next
  \/ GetChats
  \/ IsLoading
  \/ HasCachedData

SpecObs == Init /\ [][NextObs]_vars

\* the same with two deadlines only: a call is given no time at all or the
\* longest timeout
ReadTimeouts == {0, MaxTimeout}

NextRead ==
  \/ \E p \in Procs, t \in ReadTimeouts : LoadStart(p, t)
  \/ \E p \in Procs, t \in ReadTimeouts : RefreshStart(p, t)
  \/ \E p \in Procs : RefreshLock(p)
  \/ \E p \in Procs : RefreshClear(p)
  \/ \E p \in Procs : CheckLock(p)
  \/ \E p \in Procs : CacheCheck(p)
  \/ \E p \in Procs : Claim(p)
  \/ \E p \in Procs : FetchOk(p)
  \/ \E p \in Procs, e \in SourceErrors : FetchErr(p, e)
  \/ \E p \in Procs : FetchTimeout(p)
  \/ \E p \in Procs : CommitLock(p)
  \/ \E p \in Procs : Commit(p)
  \/ \E p \in Procs : ClearFlag(p)
  \/ \E p \in Procs : NotifyWaiters(p)
  \/ \E p \in Procs : WaitCheck(p)
  \/ \E p \in Procs : WaitWake(p)
  \/ \E p \in Procs : WaitTimeout(p)
  \/ \E p \in Procs : WaitLock(p)
  \/ \E p \in Procs : WaitRead(p)
  \/ Tick
  \/ GetChats
  \/ IsLoading
  \/ HasCachedData

SpecRead == Init /\ [][NextRead]_vars

\* ---- one caller, the fetch follows a script: it fails on its first k
\* invocations and succeeds afterwards, or it fails always
ScenarioDeadline == 10
\* the caller with the least id
Caller == CHOOSE p \in Procs : \A q \in Procs : p <= q

Scripts ==
  {[mode |-> "failFirst", k |-> n] : n \in 0..(MAX_RETRIES - 1)}
    \cup {[mode |-> "alwaysFail", k |-> 0]}

InitScripted ==
  /\ chats = None
  /\ is_loading = FALSE
  /\ lock = Free
  /\ notified = [p \in Procs |-> FALSE]
  /\ pc = [p \in Procs |-> "idle"]
  /\ kind = [p \in Procs |-> "none"]
  /\ remaining = [p \in Procs |-> 0]
  /\ result = [p \in Procs |-> NoResult]
  /\ fetchCount = 0
  /\ calls = 0
  /\ loaded = FALSE
  /\ clearedSince = FALSE
  /\ clearedAt = [p \in Procs |-> 0]
  /\ script \in Scripts
  /\ obs = [op |-> "none", val |-> 0]
  /\ attempt = [p \in Procs |-> 0]
  /\ sleepLeft = [p \in Procs |-> 0]
  /\ slept = 0
  /\ MessengerNew

\* load() called by the one caller
NextRetry ==
  \/ LoadStart(Caller, ScenarioDeadline)
  \/ CheckLock(Caller)
  \/ CacheCheck(Caller)
  \/ Claim(Caller)
  \/ FetchOk(Caller)
  \/ \E e \in SourceErrors : FetchErr(Caller, e)
  \/ FetchTimeout(Caller)
  \/ CommitLock(Caller)
  \/ Commit(Caller)
  \/ ClearFlag(Caller)
  \/ NotifyWaiters(Caller)
  \/ Tick

SpecRetry == InitScripted /\ [][NextRetry]_vars

\* the retry helper called by the one caller
NextBackoff ==
  \/ \E t \in 0..ScenarioDeadline : BackoffStart(Caller, t)
  \/ BackoffCheck(Caller)
  \/ BackoffFetchOk(Caller)
  \/ \E e \in SourceErrors : BackoffFetchErr(Caller, e)
  \/ BackoffFetchTimeout(Caller)
  \/ BackoffWake(Caller)
  \/ Tick

SpecBackoff == InitScripted /\ [][NextBackoff]_vars

\* ---- the retry helper with a fetch that follows one of the scripts above
\* or fails with Unauthorized on every invocation
DeniedScript == [mode |-> "denied", k |-> 0]

InitHelper ==
  /\ chats = None
  /\ is_loading = FALSE
  /\ lock = Free
  /\ notified = [p \in Procs |-> FALSE]
  /\ pc = [p \in Procs |-> "idle"]
  /\ kind = [p \in Procs |-> "none"]
  /\ remaining = [p \in Procs |-> 0]
  /\ result = [p \in Procs |-> NoResult]
  /\ fetchCount = 0
  /\ calls = 0
  /\ loaded = FALSE
  /\ clearedSince = FALSE
  /\ clearedAt = [p \in Procs |-> 0]
  /\ script \in Scripts \cup {DeniedScript}
  /\ obs = [op |-> "none", val |-> 0]
  /\ attempt = [p \in Procs |-> 0]
  /\ sleepLeft = [p \in Procs |-> 0]
  /\ slept = 0
  /\ MessengerNew

SpecHelper == InitHelper /\ [][NextBackoff]_vars

\* ---- any mix of load() and refresh() calls, with the history of each
\* refresh recorded
NextStale ==
  \/ \E p \in Procs, t \in Timeouts : LoadStart(p, t)
  \/ \E p \in Procs, t \in Timeouts : RefreshStart(p, t)
  \/ \E p \in Procs : RefreshLock(p)
  \/ \E p \in Procs : RefreshClearAt(p)
  \/ \E p \in Procs : CheckLock(p)
  \/ \E p \in Procs : CacheCheck(p)
  \/ \E p \in Procs : Claim(p)
  \/ \E p \in Procs : FetchOk(p)
  \/ \E p \in Procs, e \in SourceErrors : FetchErr(p, e)
  \/ \E p \in Procs : FetchTimeout(p)
  \/ \E p \in Procs : CommitLock(p)
  \/ \E p \in Procs : Commit(p)
  \/ \E p \in Procs : ClearFlag(p)
  \/ \E p \in Procs : NotifyWaiters(p)
  \/ \E p \in Procs : WaitCheck(p)
  \/ \E p \in Procs : WaitWake(p)
  \/ \E p \in Procs : WaitTimeout(p)
  \/ \E p \in Procs : WaitLock(p)
  \/ \E p \in Procs : WaitRead(p)
  \/ Tick

SpecStale == Init /\ [][NextStale]_vars

\* ---- cancellation: the task that runs load_chats or refresh is aborted, or
\* the future is dropped, while it is suspended in an await of line 140-195;
\* the call ends there and none of its later statements runs
AwaitPoints == {"refresh_acq", "check_acq", "fetching", "commit_acq", "waiting", "wait_acq"}

Cancel(p) ==
  /\ pc[p] \in AwaitPoints
  /\ Return(p, Err("Cancelled"))
  /\ UNCHANGED <<msgVars, cacheVars, fetchCount, calls, loaded, clearedSince, script, obs, retryVars>>

NextCancel ==
  \/ Next
  \/ \E p \in Procs : Cancel(p)

SpecCancel == Init /\ [][NextCancel]_vars

\* ---- SlidingWindowBuffer (src/core/buffer.rs)
\* a String is the sequence of its bytes, String::len is Len
Chars == {"a", "b"}
MaxMsgLen == MaxBytes + 1
Messages == UNION {[1..n -> Chars] : n \in 0..MaxMsgLen}
Counts == 0..(MaxMessages + 1)

\* line 18-25: the limits the buffer is constructed with
max_messages == MaxMessages
max_bytes == MaxBytes

\* line 35-41: evict old messages while a limit is exceeded
RECURSIVE EvictByCountOnly(_, _)
EvictByCountOnly(msgs, bytes) ==
  IF Len(msgs) > max_messages
    THEN EvictByCountOnly(Tail(msgs), bytes - Len(Head(msgs)))
    ELSE [messages |-> msgs, total_bytes |-> bytes]

RECURSIVE EvictOneMore(_, _)
EvictOneMore(msgs, bytes) ==
  IF Len(msgs) > max_messages \/ bytes > max_bytes
    THEN IF Len(msgs) > 1
           THEN EvictOneMore(Tail(Tail(msgs)), bytes - Len(Head(msgs)) - Len(Head(Tail(msgs))))
           ELSE [messages |-> <<>>, total_bytes |-> 0]
    ELSE [messages |-> msgs, total_bytes |-> bytes]

\* an eviction that drops the oldest message but keeps its bytes in the total
RECURSIVE EvictKeepsBytes(_, _)
EvictKeepsBytes(msgs, bytes) ==
  IF Len(msgs) > max_messages \/ bytes > max_bytes
    THEN IF msgs # <<>>
           THEN EvictKeepsBytes(Tail(msgs), bytes)
           ELSE [messages |-> msgs, total_bytes |-> bytes]
    ELSE [messages |-> msgs, total_bytes |-> bytes]

RECURSIVE Evict(_, _)
Evict(msgs, bytes) ==
  IF Len(msgs) > max_messages \/ bytes > max_bytes
    THEN IF msgs # <<>>
           THEN Evict(Tail(msgs), bytes - Len(Head(msgs)))
           ELSE [messages |-> msgs, total_bytes |-> bytes]
    ELSE [messages |-> msgs, total_bytes |-> bytes]

\* line 27-42
add_message(msgs, bytes, msg) == Evict(Append(msgs, msg), bytes + Len(msg))

\* line 48-53: pop_front count times
RECURSIVE PopFrontKeepsBytes(_, _, _, _)
PopFrontKeepsBytes(msgs, bytes, n, res) ==
  IF n = 0 \/ msgs = <<>>
    THEN [messages |-> msgs, total_bytes |-> bytes, result |-> res]
    ELSE PopFrontKeepsBytes(Tail(msgs), bytes, n - 1, Append(res, Head(msgs)))

RECURSIVE PopFront(_, _, _, _)
PopFront(msgs, bytes, n, res) ==
  IF n = 0 \/ msgs = <<>>
    THEN [messages |-> msgs, total_bytes |-> bytes, result |-> res]
    ELSE PopFront(Tail(msgs), bytes - Len(Head(msgs)), n - 1, Append(res, Head(msgs)))

\* line 44-57
get_next_n_messages(msgs, bytes, count) ==
  PopFront(msgs, bytes, Min(count, Len(msgs)), <<>>)

\* ---- MessageBuffer: the buffer behind its Mutex; a guard is held over no
\* await, so lock, operation and unlock are one step
\* line 74-77
PushMessage(msg) ==
  /\ LET b == add_message(messages, total_bytes, msg) IN
       /\ messages' = b.messages
       /\ total_bytes' = b.total_bytes
  /\ last' = [op |-> "push", msg |-> msg, count |-> 0, before |-> messages,
              bytes_before |-> total_bytes, ret |-> <<>>]
  /\ evicted' = (evicted \/ Len(add_message(messages, total_bytes, msg).messages) <= Len(messages))
  /\ UNCHANGED <<cacheAll, sharedVars, accepted, wire_in, received, ownerVars, taskVars>>

\* line 80-83
TakeMessages(count) ==
  /\ LET b == get_next_n_messages(messages, total_bytes, count) IN
       /\ messages' = b.messages
       /\ total_bytes' = b.total_bytes
       /\ last' = [op |-> "take", msg |-> <<>>, count |-> count, before |-> messages,
                   bytes_before |-> total_bytes, ret |-> b.result]
  /\ UNCHANGED <<cacheAll, sharedVars, netHist, ownerVars, taskVars>>

\* any sequence of pushes and drains on one buffer
NextBuffer ==
  \/ \E msg \in Messages : PushMessage(msg)
  \/ \E count \in Counts : TakeMessages(count)

SpecBuffer == Init /\ [][NextBuffer]_vars

\* ---- the buffer shared by concurrent tasks (buffer.rs 74-83, messenger.rs
\* 59-60): each task locks the Mutex, runs add_message or
\* get_next_n_messages statement by statement, and drops the guard
PushMsgs == {<<"a">>, <<"b", "b">>}
Critical == {"push_add", "push_evict", "take_min", "take_pop"}
\* calls of push_message and take_messages made by the tasks
MaxSharedOps == MaxOps + 2

\* line 74: push_message(msg) is called (or recv_task has read a line)
WPushCall(w, msg) ==
  /\ wpc[w] = "idle"
  /\ wops < MaxSharedOps
  /\ wops' = wops + 1
  /\ wpc' = [wpc EXCEPT ![w] = "push_acq"]
  /\ wloc' = [wloc EXCEPT ![w] = [NoLocals EXCEPT !.msg = msg]]
  /\ UNCHANGED <<cacheAll, bufVars, ownerVars, taskVars, netHist, buf_lock, npush, held_ids, drained_ids>>

\* line 75: self.buffer.lock().await
WPushLock(w) ==
  /\ wpc[w] = "push_acq"
  /\ buf_lock = Free
  /\ buf_lock' = w
  /\ wpc' = [wpc EXCEPT ![w] = "push_add"]
  /\ UNCHANGED <<cacheAll, bufVars, ownerVars, taskVars, netHist, wloc, wops, npush, held_ids, drained_ids>>

\* line 28-32: push_back(msg), total_bytes += msg_bytes
WPushAdd(w) ==
  /\ wpc[w] = "push_add"
  /\ messages' = Append(messages, wloc[w].msg)
  /\ total_bytes' = total_bytes + Len(wloc[w].msg)
  /\ npush' = npush + 1
  /\ held_ids' = Append(held_ids, npush + 1)
  /\ wpc' = [wpc EXCEPT ![w] = "push_evict"]
  /\ UNCHANGED <<cacheAll, last, ownerVars, taskVars, netHist, buf_lock, wloc, wops, drained_ids>>

\* line 35-42: one turn of the eviction loop, or its end and the end of the
\* function, where the guard is dropped
WPushEvict(w) ==
  /\ wpc[w] = "push_evict"
  /\ IF (Len(messages) > max_messages \/ total_bytes > max_bytes) /\ messages # <<>>
       THEN /\ messages' = Tail(messages)
            /\ total_bytes' = total_bytes - Len(Head(messages))
            /\ held_ids' = IF held_ids # <<>> THEN Tail(held_ids) ELSE held_ids
            /\ UNCHANGED <<wpc, wloc, buf_lock>>
       ELSE /\ wpc' = [wpc EXCEPT ![w] = "idle"]
            /\ wloc' = [wloc EXCEPT ![w] = NoLocals]
            /\ buf_lock' = IF buf_lock = w THEN Free ELSE buf_lock
            /\ UNCHANGED <<messages, total_bytes, held_ids>>
  /\ UNCHANGED <<cacheAll, last, ownerVars, taskVars, netHist, wops, npush, drained_ids>>

\* line 80: take_messages(count) is called
WTakeCall(w, count) ==
  /\ wpc[w] = "idle"
  /\ wops < MaxSharedOps
  /\ wops' = wops + 1
  /\ wpc' = [wpc EXCEPT ![w] = "take_acq"]
  /\ wloc' = [wloc EXCEPT ![w] = [NoLocals EXCEPT !.count = count]]
  /\ UNCHANGED <<cacheAll, bufVars, ownerVars, taskVars, netHist, buf_lock, npush, held_ids, drained_ids>>

\* a lock() that does not wait for the holder of the Mutex
WTakeLockNoWait(w) ==
  /\ wpc[w] = "take_acq"
  /\ buf_lock' = w
  /\ wpc' = [wpc EXCEPT ![w] = "take_min"]
  /\ UNCHANGED <<cacheAll, bufVars, ownerVars, taskVars, netHist, wloc, wops, npush, held_ids, drained_ids>>

\* line 81: self.buffer.lock().await
WTakeLock(w) ==
  /\ wpc[w] = "take_acq"
  /\ buf_lock = Free
  /\ buf_lock' = w
  /\ wpc' = [wpc EXCEPT ![w] = "take_min"]
  /\ UNCHANGED <<cacheAll, bufVars, ownerVars, taskVars, netHist, wloc, wops, npush, held_ids, drained_ids>>

\* line 45-46: result = Vec::new(), count = min(count, messages.len())
WTakeMin(w) ==
  /\ wpc[w] = "take_min"
  /\ wloc' = [wloc EXCEPT ![w].count = Min(wloc[w].count, Len(messages))]
  /\ wpc' = [wpc EXCEPT ![w] = "take_pop"]
  /\ UNCHANGED <<cacheAll, bufVars, ownerVars, taskVars, netHist, buf_lock, wops, npush, held_ids, drained_ids>>

\* line 48-55: one turn of the loop, or its end: the result is returned and
\* the guard is dropped
WTakePop(w) ==
  /\ wpc[w] = "take_pop"
  /\ IF wloc[w].count > 0
       THEN /\ IF messages # <<>>
                 THEN /\ messages' = Tail(messages)
                      /\ total_bytes' = total_bytes - Len(Head(messages))
                      /\ held_ids' = IF held_ids # <<>> THEN Tail(held_ids) ELSE held_ids
                      /\ wloc' = [wloc EXCEPT ![w].count = @ - 1,
                                              ![w].result = Append(@, Head(messages)),
                                              ![w].ids = IF held_ids # <<>> THEN Append(@, Head(held_ids)) ELSE @]
                 ELSE /\ wloc' = [wloc EXCEPT ![w].count = @ - 1]
                      /\ UNCHANGED <<messages, total_bytes, held_ids>>
            /\ UNCHANGED <<wpc, buf_lock, drained_ids>>
       ELSE /\ drained_ids' = drained_ids \o wloc[w].ids
            /\ wpc' = [wpc EXCEPT ![w] = "idle"]
            /\ wloc' = [wloc EXCEPT ![w] = NoLocals]
            /\ buf_lock' = IF buf_lock = w THEN Free ELSE buf_lock
            /\ UNCHANGED <<messages, total_bytes, held_ids>>
  /\ UNCHANGED <<cacheAll, last, ownerVars, taskVars, netHist, wops, npush>>

\* any interleaving of pushes and drains of the tasks
NextShared ==
  \/ \E w \in Workers, msg \in PushMsgs : WPushCall(w, msg)
  \/ \E w \in Workers : WPushLock(w)
  \/ \E w \in Workers : WPushAdd(w)
  \/ \E w \in Workers : WPushEvict(w)
  \/ \E w \in Workers, count \in Counts : WTakeCall(w, count)
  \/ \E w \in Workers : WTakeLock(w)
  \/ \E w \in Workers : WTakeMin(w)
  \/ \E w \in Workers : WTakePop(w)

SpecShared == Init /\ [][NextShared]_vars

\* ---- YggdrasilMessenger (src/core/messenger.rs): one owner calls the
\* operations one after the other (connect and disconnect take &mut self);
\* the tasks a connect spawns run concurrently with the owner
\* line 26-29: addresses given to connect, and those that parse
Addrs == {"127.0.0.1:9050", "localhost"}
ValidAddrs == {"127.0.0.1:9050"}
Parses(addr) == addr \in ValidAddrs

\* messages the owner sends, lines a peer sends
SendMsgs == {<<"a">>, <<"b", "b">>}
Lines == {<<"a", "\n">>, <<"b", "b", "\r", "\n">>}

\* a trim that removes the final newline only
TrimNewlineOnly(line) ==
  IF line # <<>> /\ line[Len(line)] = "\n" THEN SubSeq(line, 1, Len(line) - 1) ELSE line

\* line 57: line.trim_end_matches(['\r', '\n'])
RECURSIVE TrimEnd(_)
TrimEnd(line) ==
  IF line # <<>> /\ line[Len(line)] \in {"\r", "\n"}
    THEN TrimEnd(SubSeq(line, 1, Len(line) - 1))
    ELSE line

\* the lifecycle state of the messenger as the owner sees it
LifeState ==
  IF mpc = "connecting" THEN "Connecting"
  ELSE IF mpc = "disconnecting" THEN "Disconnecting"
  ELSE IF message_tx # None THEN "Connected"
  ELSE "Disconnected"

Called(op) == [op |-> op, pre |-> LifeState, res |-> "pending", msgs |-> <<>>]
Returns(op, res) == [op |-> op, pre |-> LifeState, res |-> res, msgs |-> <<>>]

\* the receiver of channel c exists: inside the task that has not started
\* yet, or inside the send_task that has not ended
RxAlive(c) ==
  \/ send_task[c] \in {"receiving", "writing"}
  \/ send_task[c] = "none" /\ task[c] \in {"spawned", "aborted"}

\* tasks that run the loop of line 52-72, and the loop of line 76-91
InboundLoops == {c \in Conns : recv_task[c] \in {"reading", "pushing"}}
OutboundLoops == {c \in Conns : send_task[c] \in {"receiving", "writing"}}

\* ---- connect_via_socks5
\* line 26-33: parse both addresses, then await Socks5Stream::connect
ConnectStart(proxy_addr, target_addr) ==
  /\ mpc = "idle"
  /\ ops < MaxOps
  /\ ops' = ops + 1
  /\ IF Parses(proxy_addr) /\ Parses(target_addr)
       THEN /\ mpc' = "connecting"
            /\ mop' = Called("connect")
       ELSE /\ mpc' = "idle"
            /\ mop' = Returns("connect", "AddressParse")
  /\ UNCHANGED <<cacheAll, sharedVars, netHist, bufVars, connection_handle, message_tx, sinceConnect, joining, nconn, taskVars>>

\* line 31-33: the tunnel is not established
ConnectFailLeavesQueue ==
  /\ mpc = "connecting"
  /\ mpc' = "idle"
  /\ mop' = [mop EXCEPT !.res = "TunnelEstablishment"]
  /\ message_tx' = IF nconn < MaxConnects THEN nconn + 1 ELSE message_tx
  /\ UNCHANGED <<cacheAll, sharedVars, netHist, bufVars, connection_handle, sinceConnect, joining, nconn, ops, taskVars>>

ConnectFail ==
  /\ mpc = "connecting"
  /\ mpc' = "idle"
  /\ mop' = [mop EXCEPT !.res = "TunnelEstablishment"]
  /\ UNCHANGED <<cacheAll, sharedVars, netHist, bufVars, connection_handle, message_tx, sinceConnect, joining, nconn, ops, taskVars>>

\* a connect that gives the new connection a new, empty buffer
ConnectOkNewBuffer ==
  /\ mpc = "connecting"
  /\ nconn < MaxConnects
  /\ nconn' = nconn + 1
  /\ message_tx' = nconn + 1
  /\ connection_handle' = nconn + 1
  /\ task' = [task EXCEPT ![nconn + 1] = "spawned"]
  /\ sinceConnect' = TRUE
  /\ mpc' = "idle"
  /\ mop' = [mop EXCEPT !.res = "Ok"]
  /\ messages' = <<>>
  /\ total_bytes' = 0
  /\ UNCHANGED <<cacheAll, sharedVars, netHist, last, joining, ops, lines, recv_task, send_task, cur_in, cur_out, chan, written>>

\* line 36-104: new channel, message_tx = Some(tx), spawn the task,
\* connection_handle = Some(handle); the former tx and handle are dropped
ConnectOk ==
  /\ mpc = "connecting"
  /\ nconn < MaxConnects
  /\ nconn' = nconn + 1
  /\ message_tx' = nconn + 1
  /\ connection_handle' = nconn + 1
  /\ task' = [task EXCEPT ![nconn + 1] = "spawned"]
  /\ sinceConnect' = TRUE
  /\ mpc' = "idle"
  /\ mop' = [mop EXCEPT !.res = "Ok"]
  /\ UNCHANGED <<cacheAll, sharedVars, netHist, bufVars, joining, ops, lines, recv_task, send_task, cur_in, cur_out, chan, written>>

\* ---- the task of line 42-101
\* line 44-92: split the stream, spawn recv_task and send_task
TaskStart(c) ==
  /\ task[c] = "spawned"
  /\ task' = [task EXCEPT ![c] = "select"]
  /\ recv_task' = [recv_task EXCEPT ![c] = "reading"]
  /\ send_task' = [send_task EXCEPT ![c] = "receiving"]
  /\ UNCHANGED <<cacheAll, sharedVars, netHist, bufVars, ownerVars, lines, cur_in, cur_out, chan, written>>

\* line 95-100: select! completes with the first of the two tasks that ends;
\* the JoinHandle of the other one is dropped, which does not stop it
TaskSelect(c) ==
  /\ task[c] = "select"
  /\ recv_task[c] = "done" \/ send_task[c] = "done"
  /\ task' = [task EXCEPT ![c] = "done"]
  /\ UNCHANGED <<cacheAll, sharedVars, netHist, bufVars, ownerVars, lines, recv_task, send_task, cur_in, cur_out, chan, written>>

\* line 132: the runtime drops the aborted task with what it owns: the two
\* JoinHandles, or stream and receiver if it has not started
TaskCancel(c) ==
  /\ task[c] = "aborted"
  /\ task' = [task EXCEPT ![c] = "cancelled"]
  /\ UNCHANGED <<cacheAll, sharedVars, netHist, bufVars, ownerVars, lines, recv_task, send_task, cur_in, cur_out, chan, written>>

\* ---- recv_task, line 47-73
\* line 54-57: read_line yields a line, which is cleaned
RecvLine(c, line) ==
  /\ recv_task[c] = "reading"
  /\ lines < MaxLines
  /\ lines' = lines + 1
  /\ cur_in' = [cur_in EXCEPT ![c] = TrimEnd(line)]
  /\ recv_task' = [recv_task EXCEPT ![c] = "pushing"]
  /\ wire_in' = [wire_in EXCEPT ![c] = Append(wire_in[c], line)]
  /\ UNCHANGED <<cacheAll, sharedVars, accepted, received, evicted, bufVars, ownerVars, task, send_task, cur_out, chan, written>>

\* line 59-60: buffer.lock().await, add_message(msg)
RecvPush(c) ==
  /\ recv_task[c] = "pushing"
  /\ LET b == add_message(messages, total_bytes, cur_in[c]) IN
       /\ messages' = b.messages
       /\ total_bytes' = b.total_bytes
  /\ last' = [op |-> "push", msg |-> cur_in[c], count |-> 0, before |-> messages,
              bytes_before |-> total_bytes, ret |-> <<>>]
  /\ cur_in' = [cur_in EXCEPT ![c] = <<>>]
  /\ recv_task' = [recv_task EXCEPT ![c] = "reading"]
  /\ evicted' = (evicted \/ Len(add_message(messages, total_bytes, cur_in[c]).messages) <= Len(messages))
  /\ UNCHANGED <<cacheAll, sharedVars, accepted, wire_in, received, ownerVars, lines, task, send_task, cur_out, chan, written>>

\* line 55, 67-70: end of stream or read error
RecvEnd(c) ==
  /\ recv_task[c] = "reading"
  /\ recv_task' = [recv_task EXCEPT ![c] = "done"]
  /\ UNCHANGED <<cacheAll, sharedVars, netHist, bufVars, ownerVars, lines, task, send_task, cur_in, cur_out, chan, written>>

\* an outbound loop that takes the newest message of the channel first
SendRecvNewestFirst(c) ==
  /\ send_task[c] = "receiving"
  /\ chan[c] # <<>>
  /\ cur_out' = [cur_out EXCEPT ![c] = chan[c][Len(chan[c])]]
  /\ chan' = [chan EXCEPT ![c] = SubSeq(chan[c], 1, Len(chan[c]) - 1)]
  /\ send_task' = [send_task EXCEPT ![c] = "writing"]
  /\ UNCHANGED <<cacheAll, sharedVars, netHist, bufVars, ownerVars, lines, task, recv_task, cur_in, written>>

\* ---- send_task, line 75-92
\* line 76: rx.recv() yields the next message
SendRecv(c) ==
  /\ send_task[c] = "receiving"
  /\ chan[c] # <<>>
  /\ cur_out' = [cur_out EXCEPT ![c] = Head(chan[c])]
  /\ chan' = [chan EXCEPT ![c] = Tail(chan[c])]
  /\ send_task' = [send_task EXCEPT ![c] = "writing"]
  /\ UNCHANGED <<cacheAll, sharedVars, netHist, bufVars, ownerVars, lines, task, recv_task, cur_in, written>>

\* line 76: the channel is empty and its sender is dropped
SendClosed(c) ==
  /\ send_task[c] = "receiving"
  /\ chan[c] = <<>>
  /\ message_tx # c
  /\ send_task' = [send_task EXCEPT ![c] = "done"]
  /\ UNCHANGED <<cacheAll, sharedVars, netHist, bufVars, ownerVars, lines, task, recv_task, cur_in, cur_out, chan, written>>

\* line 77-90: write the message, the newline, flush
SendWrite(c) ==
  /\ send_task[c] = "writing"
  /\ written' = [written EXCEPT ![c] = written[c] \o cur_out[c] \o <<"\n">>]
  /\ cur_out' = [cur_out EXCEPT ![c] = <<>>]
  /\ send_task' = [send_task EXCEPT ![c] = "receiving"]
  /\ UNCHANGED <<cacheAll, sharedVars, netHist, bufVars, ownerVars, lines, task, recv_task, cur_in, chan>>

\* line 77-89: a write or the flush fails; what was written before stays
WriteStages == {"message", "newline", "flush"}
SendWriteErr(c, stage) ==
  /\ send_task[c] = "writing"
  /\ written' = [written EXCEPT ![c] =
                   CASE stage = "message" -> written[c]
                     [] stage = "newline" -> written[c] \o cur_out[c]
                     [] OTHER -> written[c] \o cur_out[c] \o <<"\n">>]
  /\ cur_out' = [cur_out EXCEPT ![c] = <<>>]
  /\ send_task' = [send_task EXCEPT ![c] = "done"]
  /\ UNCHANGED <<cacheAll, sharedVars, netHist, bufVars, ownerVars, lines, task, recv_task, cur_in, chan>>

\* a send that does not notice that the receiving end of the channel is gone
SendMessageIgnoresReceiver(msg) ==
  /\ mpc = "idle"
  /\ ops < MaxOps
  /\ ops' = ops + 1
  /\ IF message_tx # None
       THEN /\ chan' = [chan EXCEPT ![message_tx] = Append(chan[message_tx], msg)]
            /\ accepted' = [accepted EXCEPT ![message_tx] = Append(accepted[message_tx], msg)]
            /\ mop' = Returns("send", "Ok")
       ELSE /\ mop' = Returns("send", "NotConnected")
            /\ UNCHANGED <<chan, accepted>>
  /\ UNCHANGED <<cacheAll, sharedVars, wire_in, received, evicted, bufVars, connection_handle, message_tx, mpc, sinceConnect, joining, nconn,
                 lines, task, recv_task, send_task, cur_in, cur_out, written>>

\* ---- send_message, queue_network_message, line 107-127
SendMessage(msg) ==
  /\ mpc = "idle"
  /\ ops < MaxOps
  /\ ops' = ops + 1
  /\ IF message_tx # None
       THEN IF RxAlive(message_tx)
              THEN /\ chan' = [chan EXCEPT ![message_tx] = Append(chan[message_tx], msg)]
                   /\ accepted' = [accepted EXCEPT ![message_tx] = Append(accepted[message_tx], msg)]
                   /\ mop' = Returns("send", "Ok")
              ELSE /\ mop' = Returns("send", "SendError")
                   /\ UNCHANGED <<chan, accepted>>
       ELSE /\ mop' = Returns("send", "NotConnected")
            /\ UNCHANGED <<chan, accepted>>
  /\ UNCHANGED <<cacheAll, sharedVars, wire_in, received, evicted, bufVars, connection_handle, message_tx, mpc, sinceConnect, joining, nconn,
                 lines, task, recv_task, send_task, cur_in, cur_out, written>>

\* ---- receive_messages, line 117-119
ReceiveMessages(count) ==
  /\ mpc = "idle"
  /\ ops < MaxOps
  /\ ops' = ops + 1
  /\ LET b == get_next_n_messages(messages, total_bytes, count) IN
       /\ messages' = b.messages
       /\ total_bytes' = b.total_bytes
       /\ last' = [op |-> "take", msg |-> <<>>, count |-> count, before |-> messages,
                   bytes_before |-> total_bytes, ret |-> b.result]
       /\ mop' = [op |-> "receive", pre |-> LifeState, res |-> "Ok", msgs |-> b.result]
       /\ received' = received \o b.result
  /\ UNCHANGED <<cacheAll, sharedVars, accepted, wire_in, evicted, connection_handle, message_tx, mpc, sinceConnect, joining, nconn, taskVars>>

\* ---- disconnect, line 130-138
\* line 131-133: take the handle, abort the task, await it for up to 1 s; with
\* no handle: message_tx = None, Ok
DisconnectStartClearsBuffer ==
  /\ mpc = "idle"
  /\ ops < MaxOps
  /\ ops' = ops + 1
  /\ messages' = <<>>
  /\ total_bytes' = 0
  /\ IF connection_handle # None
       THEN /\ joining' = connection_handle
            /\ connection_handle' = None
            /\ task' = [task EXCEPT ![connection_handle] =
                          IF @ \in {"spawned", "select"} THEN "aborted" ELSE @]
            /\ mpc' = "disconnecting"
            /\ mop' = Called("disconnect")
            /\ UNCHANGED <<message_tx, sinceConnect>>
       ELSE /\ message_tx' = None
            /\ sinceConnect' = FALSE
            /\ mop' = Returns("disconnect", "Ok")
            /\ UNCHANGED <<connection_handle, joining, task, mpc>>
  /\ UNCHANGED <<cacheAll, sharedVars, netHist, last, nconn, lines, recv_task, send_task, cur_in, cur_out, chan, written>>

DisconnectStart ==
  /\ mpc = "idle"
  /\ ops < MaxOps
  /\ ops' = ops + 1
  /\ IF connection_handle # None
       THEN /\ joining' = connection_handle
            /\ connection_handle' = None
            /\ task' = [task EXCEPT ![connection_handle] =
                          IF @ \in {"spawned", "select"} THEN "aborted" ELSE @]
            /\ mpc' = "disconnecting"
            /\ mop' = Called("disconnect")
            /\ UNCHANGED <<message_tx, sinceConnect>>
       ELSE /\ message_tx' = None
            /\ sinceConnect' = FALSE
            /\ mop' = Returns("disconnect", "Ok")
            /\ UNCHANGED <<connection_handle, joining, task, mpc>>
  /\ UNCHANGED <<cacheAll, sharedVars, netHist, bufVars, nconn, lines, recv_task, send_task, cur_in, cur_out, chan, written>>

\* line 133-137: the task has ended or the grace period is over; either way
\* message_tx = None, Ok
DisconnectFinishKeepsQueue ==
  /\ mpc = "disconnecting"
  /\ sinceConnect' = FALSE
  /\ joining' = None
  /\ mpc' = "idle"
  /\ mop' = [mop EXCEPT !.res = "Ok"]
  /\ UNCHANGED <<cacheAll, sharedVars, netHist, bufVars, connection_handle, message_tx, nconn, ops, taskVars>>

DisconnectFinish ==
  /\ mpc = "disconnecting"
  /\ message_tx' = None
  /\ sinceConnect' = FALSE
  /\ joining' = None
  /\ mpc' = "idle"
  /\ mop' = [mop EXCEPT !.res = "Ok"]
  /\ UNCHANGED <<cacheAll, sharedVars, netHist, bufVars, connection_handle, nconn, ops, taskVars>>

\* ---- any sequence of operations on one messenger, with its tasks
NextMessenger ==
  \/ \E proxy_addr, target_addr \in Addrs : ConnectStart(proxy_addr, target_addr)
  \/ ConnectFail
  \/ ConnectOk
  \/ \E c \in Conns : TaskStart(c)
  \/ \E c \in Conns : TaskSelect(c)
  \/ \E c \in Conns : TaskCancel(c)
  \/ \E c \in Conns, line \in Lines : RecvLine(c, line)
  \/ \E c \in Conns : RecvPush(c)
  \/ \E c \in Conns : RecvEnd(c)
  \/ \E c \in Conns : SendRecv(c)
  \/ \E c \in Conns : SendClosed(c)
  \/ \E c \in Conns : SendWrite(c)
  \/ \E c \in Conns, stage \in WriteStages : SendWriteErr(c, stage)
  \/ \E msg \in SendMsgs : SendMessage(msg)
  \/ \E count \in Counts : ReceiveMessages(count)
  \/ DisconnectStart
  \/ DisconnectFinish

SpecMessenger == Init /\ [][NextMessenger]_vars

\* ---- properties
Returned(p) == pc[p] = "idle" /\ result[p] # NoResult

\* the loader path: from the successful compare_exchange to the store(false)
LoaderPath == {"fetching", "commit_acq", "commit", "clear"}

\* C1: in one round of concurrent load() calls on the empty cache the fetch
\* is invoked at most once; stated for the rounds whose first fetch has
\* succeeded: no caller starts a second fetch.
C1_OneFetchPerRound == (\E p \in Procs : result[p] = Ok(1)) => fetchCount <= 1

\* C2: once all callers of one round have returned, they have all returned
\* the same outcome: the identical Snapshot, or the same error kind; stated
\* for the rounds in which the fetch was invoked once.
C2_SameOutcome ==
  (fetchCount = 1 /\ \A p \in Procs : Returned(p))
    => \A p, q \in Procs : result[p] = result[q]

\* C3: at every instant at most one caller is in the loader path, for any
\* mix of concurrent load() and refresh() calls.
C3_OneLoader == Cardinality({p \in Procs : pc[p] \in LoaderPath}) <= 1

\* C3 witness: of two concurrent refreshes one is fetching and the other one
\* has lost the claim and waits.
C3_Witness ==
  \E p, q \in Procs :
    /\ kind[p] = "refresh" /\ pc[p] = "fetching"
    /\ kind[q] = "refresh" /\ pc[q] = "waiting"

\* C4 as stated: in every state after a load has succeeded, is_loading()
\* false implies a non-empty cache.
C4_NeverIdleAndEmpty == (loaded /\ ~is_loading) => chats # None

\* C4 amended: the loader commits before it clears the flag, so in every
\* state after a load has succeeded in which no refresh() has cleared the
\* cache since the last commit, is_loading() false implies a non-empty cache.
C4_CommitBeforeClear == (loaded /\ ~clearedSince /\ ~is_loading) => chats # None

\* C4 witness: a loader has committed and cleared the flag and is about to
\* broadcast, the cache holds its Snapshot.
C4_Witness ==
  \E p \in Procs :
    /\ pc[p] = "notify" /\ result[p].tag = "Ok"
    /\ ~is_loading /\ chats = result[p].val /\ ~clearedSince

\* C5: every load() and refresh() call returns (each caller is idle again
\* and again), and not later than its deadline: the deadline never passes
\* while the call is running.
C5_ReturnsByDeadline ==
  /\ [](\A p \in Procs : remaining[p] >= 0)
  /\ \A p \in Procs : []<>(pc[p] = "idle")

\* C5 witness: a loader has returned a source error and a waiter of the same
\* load has returned Timeout.
C5_Witness ==
  \E p, q \in Procs :
    /\ Returned(p) /\ result[p].tag \in SourceErrors
    /\ Returned(q) /\ result[q] = Err("Timeout")
    /\ fetchCount = 1 /\ calls = 2

\* C6: a load() that finds a Snapshot in the cache returns that Snapshot at
\* once: no fetch, loading flag, notifications and cache unchanged.
C6_CachedLoadReturnsAtOnce ==
  [][\A p \in Procs :
       (pc[p] = "check" /\ chats # None /\ pc'[p] # "check")
         => /\ pc'[p] = "idle"
            /\ result'[p] = Ok(chats)
            /\ chats' = chats
            /\ is_loading' = is_loading
            /\ notified' = notified
            /\ fetchCount' = fetchCount]_vars

\* C6 witness: a load() reads the cache while it holds a Snapshot.
C6_Witness ==
  \E p \in Procs : kind[p] = "load" /\ pc[p] = "check" /\ lock = p /\ chats # None

\* C7: get_cached(), is_loading() and has_cached_data() start no fetch and
\* change neither cache nor loading flag; get_cached() returns the cache
\* content, is_loading() the flag, and has_cached_data() true exactly if a
\* Snapshot is cached and the cache lock is not held.
C7_ReadOnlyOperations ==
  [][obs' # obs =>
       /\ UNCHANGED <<chats, is_loading, lock, notified, pc, fetchCount>>
       /\ obs'.op = "get_chats" => obs'.val = chats
       /\ obs'.op = "is_loading" => obs'.val = (IF is_loading THEN 1 ELSE 0)
       /\ obs'.op = "has_cached_data"
            => obs'.val = (IF chats # None /\ lock = Free THEN 1 ELSE 0)]_vars

\* C7 witness: has_cached_data() has returned false while a Snapshot is
\* cached, because a caller holds the cache lock.
C7_Witness ==
  /\ obs = [op |-> "has_cached_data", val |-> 0]
  /\ chats # None
  /\ lock # Free

\* C8: while the load that a refresh() has triggered is in flight, the cache
\* is empty (get_cached() returns none).
C8_RefreshHidesPriorData ==
  \A p \in Procs :
    (kind[p] = "refresh" /\ pc[p] \in {"fetching", "commit_acq"}) => chats = None

\* C9: when the fetch fails on its first k < 3 invocations and then succeeds,
\* a load() that does not run into its deadline returns the Snapshot after
\* k + 1 fetch invocations.
C9_RetriesUntilSuccess ==
  (/\ script.mode = "failFirst"
   /\ calls = 1
   /\ Returned(Caller)
   /\ result[Caller] # Err("Timeout"))
    => (result[Caller].tag = "Ok" /\ fetchCount = script.k + 1)

\* C10: when every fetch fails, a load() that does not run into its deadline
\* returns the source error after MAX_RETRIES fetch invocations and backoff
\* sleeps of 100, 200 and 400 ms.
C10_ExhaustsRetries ==
  (/\ script.mode = "alwaysFail"
   /\ calls = 1
   /\ Returned(Caller)
   /\ result[Caller] # Err("Timeout"))
    => /\ result[Caller] = Err("Network")
       /\ fetchCount = MAX_RETRIES
       /\ slept = BackoffDelay(0) + BackoffDelay(1) + BackoffDelay(2)

\* sum of the byte lengths of a sequence of messages
RECURSIVE TotalLen(_)
TotalLen(msgs) == IF msgs = <<>> THEN 0 ELSE Len(Head(msgs)) + TotalLen(Tail(msgs))

\* the last n messages of a sequence
Suffix(msgs, n) == SubSeq(msgs, Len(msgs) - n + 1, Len(msgs))

\* a content that satisfies the count limit and the byte limit
Fits(msgs) == Len(msgs) <= max_messages /\ TotalLen(msgs) <= max_bytes

\* C11: in every state reached by any sequence of push and drain operations
\* the buffer holds at most max_messages messages and its byte total is at
\* most max_bytes.
C11_WithinLimits == Len(messages) <= max_messages /\ total_bytes <= max_bytes

\* C11 witness: a push onto a buffer that was full by count has evicted, and
\* the buffer is at both of its limits.
C11_Witness ==
  /\ last.op = "push"
  /\ Len(last.before) = max_messages
  /\ Len(messages) = max_messages
  /\ total_bytes = max_bytes

\* C12: drain(k) returns the oldest min(k, count) messages in arrival order,
\* leaves the rest of the old content in the same order, and reduces the
\* byte total by the byte lengths of the returned messages.
C12_DrainOldestPrefix ==
  last.op = "take" =>
    LET n == Min(last.count, Len(last.before)) IN
      /\ last.ret = SubSeq(last.before, 1, n)
      /\ messages = SubSeq(last.before, n + 1, Len(last.before))
      /\ total_bytes = last.bytes_before - TotalLen(last.ret)

\* C12 witness: a drain of one message from a buffer that held two different
\* non-empty messages.
C12_Witness ==
  /\ last.op = "take"
  /\ last.count = 1
  /\ Len(last.before) = 2
  /\ last.before[1] # last.before[2]
  /\ Len(last.before[1]) > 0
  /\ Len(messages) = 1

\* C13: after push(m) the pushed message m is the newest entry of the
\* buffer, also when m alone is longer than max_bytes.
C13_PushedMessageRetained ==
  last.op = "push" => (messages # <<>> /\ messages[Len(messages)] = last.msg)

\* C14: after the push of a message of at most max_bytes bytes the buffer is
\* the longest suffix of the old content followed by the message that
\* satisfies both limits, and the byte total is the sum of its byte lengths.
C14_MinimalEviction ==
  (last.op = "push" /\ Len(last.msg) <= max_bytes) =>
    LET all == Append(last.before, last.msg)
        best == CHOOSE n \in 0..Len(all) :
                  /\ Fits(Suffix(all, n))
                  /\ \A k \in 0..Len(all) : Fits(Suffix(all, k)) => k <= n
    IN /\ messages = Suffix(all, best)
       /\ total_bytes = TotalLen(messages)

\* C14 witness: two messages that fit each but not together: after the
\* second push the buffer holds only the second one.
C14_Witness ==
  /\ last.op = "push"
  /\ Len(last.before) = 1
  /\ Len(last.msg) <= max_bytes
  /\ Len(last.before[1]) + Len(last.msg) > max_bytes
  /\ messages = <<last.msg>>
  /\ total_bytes = Len(last.msg)

\* the errors connect() returns
ConnectErrors == {"AddressParse", "TunnelEstablishment"}

\* C15: send() fails with NotConnected exactly when the messenger holds no
\* outbound queue, and it holds none exactly if no connect() has succeeded
\* since the construction or since the last disconnect() returned; a send
\* that fails so enqueues nothing.
C15_SendFailsIffNoQueue ==
  [][(ops' # ops /\ mop'.op = "send") =>
       /\ (mop'.res = "NotConnected") <=> (message_tx = None)
       /\ (message_tx = None) <=> ~sinceConnect
       /\ (mop'.res = "NotConnected") => chan' = chan]_vars

\* C15 witness: a send() has failed with NotConnected on a messenger that had
\* been connected and was disconnected.
C15_Witness ==
  /\ mop.op = "send"
  /\ mop.res = "NotConnected"
  /\ nconn >= 1
  /\ \A c \in Conns : chan[c] = <<>>

\* C16: at most one inbound loop feeds the buffer at any time, whatever
\* sequence of connect() and disconnect() calls the messenger has seen.
C16_OneInboundLoop == Cardinality(InboundLoops) <= 1

\* C17: a disconnect() called on a disconnected messenger returns Ok in one
\* step and changes nothing: no task handle, no outbound queue, the buffer
\* content, the tasks and the channels as before.
C17_DisconnectIdempotent ==
  [][(ops' # ops /\ mop'.op = "disconnect" /\ LifeState = "Disconnected") =>
       /\ mop'.res = "Ok"
       /\ mpc' = "idle"
       /\ connection_handle' = None
       /\ message_tx' = None
       /\ UNCHANGED <<connection_handle, message_tx, messages, total_bytes,
                      task, recv_task, send_task, chan>>]_vars

\* C17 witness: the second of two disconnects in a row after a connection
\* that has received a message: it has returned Ok and the buffer still holds
\* the message.
C17_Witness ==
  /\ mop = [op |-> "disconnect", pre |-> "Disconnected", res |-> "Ok", msgs |-> <<>>]
  /\ nconn >= 1
  /\ messages # <<>>
  /\ connection_handle = None
  /\ message_tx = None

\* C18: a connect() that returns an error has spawned no task and created no
\* queue: handle, queue, tasks and channels are as before, a messenger that
\* was Disconnected at the call is Disconnected at the return, and a send()
\* that follows fails with NotConnected.
C18_FailedConnectChangesNothing ==
  [][/\ ((ops' # ops \/ mpc = "connecting") /\ mop'.op = "connect" /\ mop'.res \in ConnectErrors)
          => /\ mpc' = "idle"
             /\ UNCHANGED <<connection_handle, message_tx, nconn, task, recv_task, send_task, chan>>
             /\ mop'.pre = "Disconnected" => (message_tx' = None /\ connection_handle' = None)
     /\ (/\ ops' # ops /\ mop'.op = "send"
         /\ mop.op = "connect" /\ mop.res \in ConnectErrors /\ mop.pre = "Disconnected")
          => mop'.res = "NotConnected"]_vars

\* C18 witness: on a disconnected messenger the tunnel of a connect() was not
\* established: the error is returned, there is no queue and no handle.
C18_Witness ==
  /\ mop = [op |-> "connect", pre |-> "Disconnected", res |-> "TunnelEstablishment", msgs |-> <<>>]
  /\ mpc = "idle"
  /\ message_tx = None
  /\ connection_handle = None

\* C19: a waiter whose deadline has not passed does not wait without a
\* notification while the cache holds the Snapshot, unless a loader is about
\* to broadcast: the broadcast of the commit is not lost on it.
C19_NoLostNotification ==
  \A p \in Procs :
    (pc[p] = "waiting" /\ ~notified[p] /\ remaining[p] > 0 /\ chats # None)
      => \E q \in Procs : pc[q] \in {"clear", "notify"}

\* C20: a waiter that was woken and reads an empty cache while no load is in
\* progress and its deadline has not passed goes on to the loader claim.
C20_WokenWaiterClaims ==
  [][\A p \in Procs :
       (/\ pc[p] = "wait_read" /\ pc'[p] # pc[p]
        /\ chats = None /\ ~is_loading /\ remaining[p] > 0)
         => pc'[p] \in {"claim", "fetching"}]_vars

C22_CacheChangesByCommitOrRefresh ==
  [][/\ chats' # chats
          => \/ \E p \in Procs : /\ pc[p] = "commit" /\ pc'[p] = "clear"
                                 /\ result[p].tag = "Ok" /\ chats' = result[p].val
             \/ \E p \in Procs : /\ pc[p] = "refresh_clear" /\ pc'[p] = "check_acq"
                                 /\ chats' = None
     /\ \A p \in Procs :
          (pc[p] # "idle" /\ pc'[p] = "idle" /\ result'[p].tag # "Ok")
            => chats' = chats]_vars

\* C22 witness: a call has returned a source error, the cache holds the
\* Snapshot of an earlier fetch.
C22_Witness ==
  /\ chats # None
  /\ \E p \in Procs : Returned(p) /\ result[p].tag \in SourceErrors

\* C23: the retry helper starts a fetch attempt only with time left, goes to
\* sleep only if the sleep ends before the deadline, and otherwise returns
\* Timeout at once, without a sleep and without another fetch.
C23_NoSleepPastDeadline ==
  [][\A p \in Procs :
       /\ (pc[p] # "b_fetching" /\ pc'[p] = "b_fetching") => remaining[p] > 0
       /\ (pc[p] = "b_fetching" /\ pc'[p] = "b_sleep")
            => /\ BackoffDelay(attempt[p]) < remaining[p]
               /\ sleepLeft'[p] = BackoffDelay(attempt[p])
       /\ pc'[p] = "b_sleep" => sleepLeft'[p] < remaining'[p]
       /\ (/\ pc[p] = "b_fetching" /\ pc'[p] # pc[p]
           /\ "Ok" \notin FetchOutcomes(fetchCount)
           /\ attempt[p] < MAX_RETRIES - 1
           /\ BackoffDelay(attempt[p]) >= remaining[p])
            => /\ pc'[p] = "idle"
               /\ result'[p] = Err("Timeout")
               /\ fetchCount' = fetchCount
               /\ slept' = slept]_vars

\* C23 witness: the fetch always fails; the helper has slept once, and after
\* the second failure it has returned Timeout instead of sleeping again.
C23_Witness ==
  /\ script.mode = "alwaysFail"
  /\ calls = 1
  /\ Returned(Caller) /\ result[Caller] = Err("Timeout")
  /\ fetchCount = 2
  /\ slept = BackoffDelay(0)

\* C24: when the fetch fails with Unauthorized, the retry helper makes one
\* fetch invocation per call and never sleeps.
C24_NonRetryableEndsAtOnce ==
  script.mode = "denied" => (fetchCount <= calls /\ slept = 0)

\* ---- the duplex task and its two loops (messenger.rs 42-101, 130-138)
\* a step in which the inbound loop of connection c pushes its line
PushStep(c) == recv_task[c] = "pushing" /\ recv_task'[c] = "reading"
\* a step in which the outbound loop of connection c writes to the stream
WriteStep(c) == written'[c] # written[c]

\* C25: the duplex task ends as a whole as soon as either loop ends: once the
\* task of a connection has ended because its outbound loop ended, its inbound
\* loop pushes no further message, and once it has ended because its inbound
\* loop ended, its outbound loop writes no further message.
C25_LoopsEndTogether ==
  [][\A c \in Conns :
       /\ (task[c] = "done" /\ send_task[c] = "done") => ~PushStep(c)
       /\ (task[c] = "done" /\ recv_task[c] = "done") => ~WriteStep(c)]_vars

\* C26: after disconnect() has returned for a connection, its inbound loop
\* pushes nothing more to the buffer and its outbound loop writes nothing more.
Disconnected(c) == task[c] \in {"aborted", "cancelled"} /\ joining # c
C26_QuietAfterDisconnect ==
  [][\A c \in Conns : Disconnected(c) => (~PushStep(c) /\ ~WriteStep(c))]_vars

\* ---- send after the death of the duplex task (messenger.rs 75-98, 107-115)
\* a step that is a whole send_message call
SendStep == mpc = "idle" /\ ops' = ops + 1 /\ mop'.op = "send"
\* the duplex task of the current connection has ended and disconnect was not called
TaskDied == message_tx # None /\ task[message_tx] = "done"
Enqueued ==
  /\ Len(chan'[message_tx]) = Len(chan[message_tx]) + 1
  /\ SubSeq(chan'[message_tx], 1, Len(chan[message_tx])) = chan[message_tx]

RECURSIVE Framed(_)
Framed(msgs) ==
  IF msgs = <<>> THEN <<>> ELSE Head(msgs) \o <<"\n">> \o Framed(Tail(msgs))

IsPrefix(s, t) == Len(s) <= Len(t) /\ SubSeq(t, 1, Len(s)) = s

\* C28: within one connection the bytes written to the stream are at every
\* moment a prefix of the accepted messages, each followed by one newline, in
\* the order send accepted them: nothing is duplicated, reordered or skipped.
C28_WireIsPrefixOfAccepted ==
  \A c \in Conns : IsPrefix(written[c], Framed(accepted[c]))

\* two different messages were accepted and both are on the wire
C28_Witness ==
  \E c \in Conns :
    /\ Len(accepted[c]) = 2
    /\ accepted[c][1] # accepted[c][2]
    /\ written[c] = Framed(accepted[c])

\* ---- the order of the inbound messages (messenger.rs 47-73, 117-119)
\* the line without its newline delimiter
Frame(line) ==
  IF line # <<>> /\ line[Len(line)] = "\n" THEN SubSeq(line, 1, Len(line) - 1) ELSE line

\* the line without any trailing carriage return or newline
Stripped(line) ==
  CHOOSE p \in {SubSeq(line, 1, n) : n \in 0..Len(line)} :
    /\ p = <<>> \/ p[Len(p)] \notin {"\r", "\n"}
    /\ \A i \in (Len(p) + 1)..Len(line) : line[i] \in {"\r", "\n"}

\* the lines of connection c whose push is complete
PushedLines(c) ==
  IF recv_task[c] = "pushing" THEN SubSeq(wire_in[c], 1, Len(wire_in[c]) - 1) ELSE wire_in[c]

\* what receive has returned followed by what the buffer holds
Delivered == received \o messages

\* the inbound loop does nothing after end-of-stream or read error
StopsAtEnd == \A c \in Conns : recv_task[c] = "done" => (recv_task'[c] = "done" /\ wire_in'[c] = wire_in[c])

Intermediate ==
  IF last.op = "push"
    THEN LET all == Append(last.before, last.msg) IN
           {last.bytes_before + Len(last.msg) - TotalLen(SubSeq(all, 1, j)) :
              j \in 0..(Len(all) - Len(messages))}
    ELSE {last.bytes_before - TotalLen(SubSeq(last.ret, 1, j)) : j \in 0..Len(last.ret)}

\* C30: in every state total_bytes is the sum of the byte lengths of the
\* messages held (0 for the empty buffer), and no subtraction made on
\* eviction or drain goes below zero.
C30_ExactByteAccounting ==
  /\ total_bytes = TotalLen(messages)
  /\ \A b \in Intermediate : b >= 0

\* a push has evicted two messages at once and a message remains
C30_Witness ==
  /\ last.op = "push"
  /\ Len(last.before) = 2
  /\ Len(messages) = 1
  /\ total_bytes = Len(last.msg)
  /\ total_bytes > 0

\* ---- the loader is cancelled (chat_data.rs 145-179)
\* no caller is between the compare_exchange and the store(false)
NoLoader == \A q \in Procs : pc[q] \notin LoaderPath

\* C31: when the loader was cancelled during the fetch the loading flag does
\* not stay set: a load() that reaches the compare_exchange while no loader
\* is at work wins it and becomes the loader, it does not become a waiter.
C31_ClaimAfterCancelledLoader ==
  [][\A p \in Procs :
       (pc[p] = "claim" /\ NoLoader /\ pc'[p] # "claim") => pc'[p] = "fetching"]_vars

\* ---- the buffer belongs to the messenger (messenger.rs 12-19, 36-39, 117-138)
\* a step of connect, send or disconnect made by the owner
OwnerStep == ownerVars' # ownerVars /\ mop'.op \in {"connect", "send", "disconnect"}

\* C34: connect, a failed connect, send and disconnect leave the content of
\* the buffer as it is, so what was received before a disconnect or a
\* reconnect is still there for receive afterwards.
C34_BufferOutlivesConnection ==
  [][OwnerStep => (messages' = messages /\ total_bytes' = total_bytes)]_vars

\* a second connect succeeded on a buffer that holds a message of the first
\* connection
C34_Witness ==
  /\ nconn = 2
  /\ mop.op = "connect" /\ mop.res = "Ok"
  /\ wire_in[2] = <<>>
  /\ messages # <<>>

\* ---- refresh and a load in flight (chat_data.rs 280-284, 139-198)
\* C32: a refresh() that returns a Snapshot returns one whose fetch was
\* invoked after that refresh() cleared the cache (Snapshots are numbered by
\* the invocation of their fetch), not the Snapshot of a load that was in
\* flight when the cache was cleared.
C32_RefreshReturnsFreshData ==
  [][\A p \in Procs :
       (kind[p] = "refresh" /\ pc[p] # "idle" /\ pc'[p] = "idle" /\ result'[p].tag = "Ok")
         => result'[p].val > clearedAt[p]]_vars

\* ---- concurrent pushes and drains (buffer.rs 60-84, messenger.rs 56-62)
Range(f) == {f[i] : i \in 1..Len(f)}
Increasing(f) == \A i, j \in 1..Len(f) : i < j => f[i] < f[j]
\* the ids a take_messages in progress has popped and not returned yet
InHand == UNION {Range(wloc[w].ids) : w \in Workers}
\* ids of the messages that were pushed and are neither held nor drained
Lost == (1..npush) \ (Range(held_ids) \cup Range(drained_ids) \cup InHand)

\* C33: under any interleaving of pushes and drains each operation takes
\* effect atomically under the one lock: at most one task is inside an
\* operation and it holds the lock; while no operation is in progress the
\* buffer is within its limits with an exact byte total; every pushed message
\* is drained at most once and is never both drained and held; the drain
\* results, concatenated, follow the push order; and only the oldest messages
\* are lost.
C33_AtomicUnderOneLock ==
  /\ Cardinality({w \in Workers : wpc[w] \in Critical}) <= 1
  /\ \A w \in Workers : wpc[w] \in Critical <=> buf_lock = w
  /\ buf_lock = Free => (Fits(messages) /\ total_bytes = TotalLen(messages))
  /\ Len(held_ids) = Len(messages)
  /\ Increasing(drained_ids) /\ Increasing(held_ids)
  /\ \A w \in Workers : Increasing(drained_ids \o wloc[w].ids \o held_ids)
  /\ Range(drained_ids) \cap Range(held_ids) = {}
  /\ Range(drained_ids) \cup Range(held_ids) \cup InHand \subseteq 1..npush
  /\ \A l \in Lost : \A h \in Range(held_ids) \cup InHand : l < h

\* a task waits for the lock while another is in the middle of a push that
\* evicts, after a drain has returned a message
C33_Witness ==
  \E w1, w2 \in Workers :
    /\ wpc[w1] = "push_evict" /\ ~Fits(messages)
    /\ wpc[w2] = "take_acq"
    /\ drained_ids # <<>>

====
